---------------------------- MODULE Spec2Model ----------------------------
(***************************************************************************)
(* A model of pyser: the token catalog (TokenType), the Lexer, the rule    *)
(* registry and recursive-descent Parser, and the Interpreter's reduction  *)
(* dispatch, together with the two client grammars (main.py, simp.py).     *)
(*                                                                         *)
(* Conventions.  A Python str is a sequence of one-character strings;      *)
(* positions are 0-based as in the source.  Python's None is the empty     *)
(* tuple None and a present value x is the one-element tuple Some(x).      *)
(* A dict is a function whose domain is its set of keys; a dict whose      *)
(* insertion order matters (a rule definition) is a sequence of            *)
(* <<key, value>> pairs.                                                   *)
(***************************************************************************)
EXTENDS Integers, Sequences, FiniteSets, TLC

VARIABLES
    tokens,      \* TokenType.tokens: name -> TokenDefinition
    token_defs,  \* Lexer.token_defs: ordered list of TokenDefinition
    heap,        \* the ParsingRule objects created so far; a handle is an index
    rules,       \* Parser.rules: rule name -> handle of a ParsingRule
    variables,   \* the external variables dict of the client (simp.py:6)
    input,       \* the argument the client passes to tokenize / parse / interpret
    call         \* the last operation executed: its name, arguments and outcome

vars == <<tokens, token_defs, heap, rules, variables, input, call>>

None == << >>
Some(x) == << x >>

Min(S) == CHOOSE x \in S : \A y \in S : x <= y

(***************************************************************************)
(* Python str helpers                                                      *)
(***************************************************************************)
\* text[position:]
Slice(text, position) ==
    IF position >= Len(text) THEN << >> ELSE SubSeq(text, position + 1, Len(text))

\* text[:n]
Take(text, n) == IF n <= 0 THEN << >> ELSE SubSeq(text, 1, IF n > Len(text) THEN Len(text) ELSE n)

SpaceChars == {" ", "\t", "\n", "\r", "\f"}
DigitChars == {"0", "1", "2", "3", "4", "5", "6", "7", "8", "9"}
LetterChars ==
    {"a", "b", "c", "d", "e", "f", "g", "h", "i", "j", "k", "l", "m",
     "n", "o", "p", "q", "r", "s", "t", "u", "v", "w", "x", "y", "z",
     "A", "B", "C", "D", "E", "F", "G", "H", "I", "J", "K", "L", "M",
     "N", "O", "P", "Q", "R", "S", "T", "U", "V", "W", "X", "Y", "Z", "_"}
WordChars == LetterChars \cup DigitChars

\* the length of the longest prefix of s whose characters are all in class
RECURSIVE RunLen(_, _)
RunLen(s, class) ==
    IF s = << >> \/ s[1] \notin class THEN 0 ELSE 1 + RunLen(Tail(s), class)

\* str.strip(): whitespace removed at both ends
RECURSIVE StripRight(_)
StripRight(s) ==
    IF s # << >> /\ s[Len(s)] \in SpaceChars THEN StripRight(SubSeq(s, 1, Len(s) - 1)) ELSE s

Strip(s) == StripRight(Slice(s, RunLen(s, SpaceChars)))

\* text.startswith(literal, position)
StartsWith(text, literal, position) ==
    /\ position + Len(literal) <= Len(text)
    /\ \A i \in 1..Len(literal) : text[position + i] = literal[i]

(***************************************************************************)
(* The regular expressions of add_auto_token, and re.match on each: the    *)
(* length of the (greedy) match at the start of s, or -1 for no match.     *)
(***************************************************************************)
PatNumber == "\\d+(\\.\\d+)?"
PatString == "\"[^\"]*\""
PatIdentifier == "[A-Za-z_]\\w*"
PatWord == "\\w+"

MatchNumber(s) ==
    LET n == RunLen(s, DigitChars)
        frac == IF n < Len(s) /\ s[n + 1] = "." THEN RunLen(Slice(s, n + 1), DigitChars) ELSE 0
    IN  IF n = 0 THEN -1 ELSE IF frac > 0 THEN n + 1 + frac ELSE n

MatchString(s) ==
    IF s = << >> \/ s[1] # "\"" THEN -1
    ELSE LET close == {j \in 2..Len(s) : s[j] = "\""}
         IN  IF close = {} THEN -1 ELSE Min(close)

MatchIdentifier(s) ==
    IF s = << >> \/ s[1] \notin LetterChars THEN -1 ELSE 1 + RunLen(Tail(s), WordChars)

MatchWord(s) ==
    LET n == RunLen(s, WordChars) IN IF n = 0 THEN -1 ELSE n

ReMatch(pattern, s) ==
    CASE pattern = PatNumber -> MatchNumber(s)
      [] pattern = PatString -> MatchString(s)
      [] pattern = PatIdentifier -> MatchIdentifier(s)
      [] OTHER -> MatchWord(s)

(***************************************************************************)
(* TokenDefinition and TokenType                                           *)
(***************************************************************************)
TokenDefinition(name, value, pattern) ==
    [name |-> name, value |-> value, pattern |-> pattern]

\* TokenDefinition.__eq__: name and value, the pattern is not compared
TokenDefEq(d, e) == d.name = e.name /\ d.value = e.value

\* TokenType.add_token(name, literal) on the catalog toks
AddToken(toks, name, literal) ==
    [n \in DOMAIN toks \cup {name} |->
        IF n = name THEN TokenDefinition(name, Some(literal), None) ELSE toks[n]]

AutoPattern(name) ==
    CASE name = "NUMBER" -> PatNumber
      [] name = "STRING" -> PatString
      [] name = "IDENTIFIER" -> PatIdentifier
      [] OTHER -> PatWord

\* a variant of add_auto_token without the "already defined" early return
AddAutoTokenOverwrite(toks, name) ==
    [n \in DOMAIN toks \cup {name} |->
        IF n = name THEN TokenDefinition(name, None, Some(AutoPattern(name))) ELSE toks[n]]

\* TokenType.add_auto_token(name) on the catalog toks
AddAutoToken(toks, name) ==
    IF name \in DOMAIN toks THEN toks
    ELSE [n \in DOMAIN toks \cup {name} |->
            IF n = name THEN TokenDefinition(name, None, Some(AutoPattern(name))) ELSE toks[n]]

EmptyDict == [n \in {} |-> None]

(***************************************************************************)
(* Lexer.tokenize                                                          *)
(***************************************************************************)
Token(type_def, value, position) ==
    [type |-> type_def, value |-> value, position |-> position]

\* a variant of the literal scan that prefers the longest literal
LongestLiteral(defs, text, position) ==
    LET hits == {j \in 1..Len(defs) :
                    defs[j].value # None /\ StartsWith(text, defs[j].value[1], position)}
    IN  IF hits = {} THEN 0
        ELSE CHOOSE j \in hits :
                \A k \in hits : \/ Len(defs[k].value[1]) < Len(defs[j].value[1])
                                \/ (Len(defs[k].value[1]) = Len(defs[j].value[1]) /\ j <= k)

\* lines 84-91: the index of the token_def the literal scan breaks at, 0 if none
RECURSIVE ScanLiterals(_, _, _, _)
ScanLiterals(defs, j, text, position) ==
    IF j > Len(defs) THEN 0
    ELSE IF defs[j].value # None /\ StartsWith(text, defs[j].value[1], position) THEN j
    ELSE ScanLiterals(defs, j + 1, text, position)

FirstLiteral(defs, text, position) == ScanLiterals(defs, 1, text, position)

\* lines 98-106: the index of the token_def the pattern scan breaks at, 0 if none
RECURSIVE ScanPatterns(_, _, _, _)
ScanPatterns(defs, j, text, position) ==
    IF j > Len(defs) THEN 0
    ELSE IF defs[j].value = None /\ ReMatch(defs[j].pattern[1], Slice(text, position)) >= 0 THEN j
    ELSE ScanPatterns(defs, j + 1, text, position)

FirstPattern(defs, text, position) == ScanPatterns(defs, 1, text, position)

LexResult(status, toks, position) ==
    [status |-> status, tokens |-> toks, position |-> position]

(***************************************************************************)
(* The while loop of tokenize (lines 73-108) on the stripped text.  An     *)
(* iteration that appends a token of empty text leaves position unchanged, *)
(* so the next iteration is the same one: the loop never ends ("diverge"). *)
(***************************************************************************)
RECURSIVE TokenizeLoop(_, _, _, _)
TokenizeLoop(defs, text, position, toks) ==
    IF ~(position < Len(text)) THEN LexResult("ok", toks, position)
    ELSE
      LET p == position + RunLen(Slice(text, position), SpaceChars)
          lit == FirstLiteral(defs, text, p)
          pat == FirstPattern(defs, text, p)
      IN  IF p >= Len(text) THEN LexResult("ok", toks, p)
          ELSE IF lit # 0 THEN
                 LET literal == defs[lit].value[1]
                     toks1 == Append(toks, Token(defs[lit], literal, p))
                 IN  IF Len(literal) = 0
                       THEN LexResult("diverge", toks1, p)
                       ELSE TokenizeLoop(defs, text, p + Len(literal), toks1)
          ELSE IF pat # 0 THEN
                 LET value == Take(Slice(text, p), ReMatch(defs[pat].pattern[1], Slice(text, p)))
                 IN  TokenizeLoop(defs, text, p + Len(value),
                                  Append(toks, Token(defs[pat], value, p)))
          ELSE LexResult("error", toks, p)

Tokenize(defs, text) == TokenizeLoop(defs, Strip(text), 0, << >>)

(***************************************************************************)
(* ParsingRule and the Parser's registry.  A rule definition is the        *)
(* ordered dict slot -> list of alternatives; an alternative is a          *)
(* TokenDefinition, a ParsingRule (held by handle) or an inline dict.      *)
(***************************************************************************)
NoTok == TokenDefinition("", None, None)

TokAlt(d) == [kind |-> "token", tok |-> d, ref |-> 0, dict |-> << >>]
RuleAlt(h) == [kind |-> "rule", tok |-> NoTok, ref |-> h, dict |-> << >>]
DictAlt(definition) == [kind |-> "dict", tok |-> NoTok, ref |-> 0, dict |-> definition]

\* ParsingRule.__init__
ParsingRule(name) == [name |-> name, definition |-> << >>]

\* ParsingRule.update_definition on the object behind handle h
UpdateDefinition(hp, h, definition) == [hp EXCEPT ![h].definition = definition]

ParserState(hp, rs) == [heap |-> hp, rules |-> rs]

DictSet(d, key, value) ==
    [k \in DOMAIN d \cup {key} |-> IF k = key THEN value ELSE d[k]]

\* Parser.new_parsing_rule: a fresh ParsingRule is stored under name
NewParsingRule(P, name) ==
    ParserState(Append(P.heap, ParsingRule(name)),
                DictSet(P.rules, name, Len(P.heap) + 1))

\* Parser.__setitem__
SetItem(P, key, value) ==
    IF key \in DOMAIN P.rules
      THEN ParserState(UpdateDefinition(P.heap, P.rules[key], value), P.rules)
      ELSE ParserState(UpdateDefinition(Append(P.heap, ParsingRule(key)), Len(P.heap) + 1, value),
                       DictSet(P.rules, key, Len(P.heap) + 1))

(***************************************************************************)
(* Object lifetime.  Rebinding self.rules[name] or self.definition drops   *)
(* the reference held before; a ParsingRule that neither the registry nor  *)
(* a definition of a live rule refers to any more is released, and its     *)
(* slot of the heap is left empty (handles are never reused).              *)
(***************************************************************************)
Released == [name |-> "", definition |-> << >>]

RECURSIVE RefsOf(_)
AltRefs(alt) ==
    CASE alt.kind = "rule" -> {alt.ref}
      [] alt.kind = "dict" -> RefsOf(alt.dict)
      [] OTHER -> {}

RefsOf(definition) ==
    UNION {UNION {AltRefs(definition[i][2][j]) : j \in 1..Len(definition[i][2])} :
              i \in 1..Len(definition)}

RECURSIVE Closure(_, _, _)
Closure(hp, live, n) ==
    IF n = 0 THEN live
    ELSE Closure(hp, live \cup UNION {RefsOf(hp[h].definition) : h \in live}, n - 1)

Live(P) == Closure(P.heap, {P.rules[name] : name \in DOMAIN P.rules}, Len(P.heap))

Release(P) ==
    LET live == Live(P)
    IN  ParserState([h \in 1..Len(P.heap) |-> IF h \in live THEN P.heap[h] ELSE Released],
                    P.rules)

HasKey(definition, key) == \E i \in 1..Len(definition) : definition[i][1] = key
Lookup(definition, key) ==
    definition[CHOOSE i \in 1..Len(definition) : definition[i][1] = key][2]

(***************************************************************************)
(* Parser._parse_rule and Parser._parse_element.  An outcome is            *)
(* [res, pos, div]: res is None or Some(node), pos the position returned,  *)
(* and div says that the call never returns (an optional loop whose        *)
(* iteration succeeds without advancing repeats the same iteration).       *)
(***************************************************************************)
Outcome(res, pos) == [res |-> res, pos |-> pos, div |-> FALSE]
Diverges(pos) == [res |-> None, pos |-> pos, div |-> TRUE]

RECURSIVE ParseRule(_, _, _, _, _)
RECURSIVE ParseElement(_, _, _, _)
RECURSIVE TryAlternatives(_, _, _, _, _)
RECURSIVE ParseParts(_, _, _, _, _, _)
RECURSIVE OptionalLoop(_, _, _, _, _)

\* a variant of the alternatives loop that takes the last matching alternative
RECURSIVE TryAlternativesLast(_, _, _, _, _)
TryAlternativesLast(hp, alts, j, toks, pos) ==
    IF j > Len(alts) THEN Outcome(None, pos)
    ELSE LET r == ParseElement(hp, alts[j], toks, pos)
             later == TryAlternativesLast(hp, alts, j + 1, toks, pos)
         IN  IF r.div THEN r
             ELSE IF later.div \/ later.res # None THEN later
             ELSE r

\* lines 170-175 and 185-191: the first alternative, from index j, that parses
TryAlternatives(hp, alts, j, toks, pos) ==
    IF j > Len(alts) THEN Outcome(None, pos)
    ELSE LET r == ParseElement(hp, alts[j], toks, pos)
         IN  IF r.div \/ r.res # None THEN r
             ELSE TryAlternatives(hp, alts, j + 1, toks, pos)

\* lines 167-178: the mandatory parts from index i on; node is the dict so far.
\* A failure is reported with the position the loop had reached.
ParseParts(hp, parts, i, toks, pos, node) ==
    IF i > Len(parts) THEN Outcome(Some(node), pos)
    ELSE LET r == TryAlternatives(hp, parts[i][2], 1, toks, pos)
         IN  IF r.div THEN r
             ELSE IF r.res = None THEN Outcome(None, pos)
             ELSE ParseParts(hp, parts, i + 1, toks, r.pos,
                             DictSet(node, parts[i][1], r.res[1]))

\* lines 183-193: the while loop over the optional alternatives
OptionalLoop(hp, opts, toks, pos, opt_results) ==
    LET r == TryAlternatives(hp, opts, 1, toks, pos)
    IN  IF r.div THEN r
        ELSE IF r.res = None THEN Outcome(Some(opt_results), pos)
        ELSE IF r.pos = pos THEN Diverges(pos)
        ELSE OptionalLoop(hp, opts, toks, r.pos, Append(opt_results, r.res[1]))

MandatoryParts(definition) ==
    LET NotOptional(kv) == kv[1] # "optional" IN SelectSeq(definition, NotOptional)

\* a variant of _parse_rule that reports a failure with the position reached
ParseRuleNoReset(hp, name, definition, toks, pos) ==
    LET m == ParseParts(hp, MandatoryParts(definition), 1, toks, pos, [type |-> name])
        o == OptionalLoop(hp, Lookup(definition, "optional"), toks, m.pos, << >>)
    IN  IF m.div THEN m
        ELSE IF m.res = None THEN Outcome(None, m.pos)
        ELSE IF ~HasKey(definition, "optional") THEN m
        ELSE IF o.div THEN o
        ELSE IF o.res[1] # << >>
          THEN Outcome(Some(DictSet(m.res[1], "optional", o.res[1])), o.pos)
          ELSE Outcome(m.res, o.pos)

\* a variant of _parse_rule that stores the "optional" key even when empty
ParseRuleAlwaysOptional(hp, name, definition, toks, pos) ==
    LET m == ParseParts(hp, MandatoryParts(definition), 1, toks, pos, [type |-> name])
        o == OptionalLoop(hp, Lookup(definition, "optional"), toks, m.pos, << >>)
    IN  IF m.div THEN m
        ELSE IF m.res = None THEN Outcome(None, pos)
        ELSE IF ~HasKey(definition, "optional") THEN m
        ELSE IF o.div THEN o
        ELSE Outcome(Some(DictSet(m.res[1], "optional", o.res[1])), o.pos)

\* Parser._parse_rule(rule, tokens, pos) for a rule of this name and definition
ParseRule(hp, name, definition, toks, pos) ==
    LET m == ParseParts(hp, MandatoryParts(definition), 1, toks, pos, [type |-> name])
        o == OptionalLoop(hp, Lookup(definition, "optional"), toks, m.pos, << >>)
    IN  IF m.div THEN m
        ELSE IF m.res = None THEN Outcome(None, pos)
        ELSE IF ~HasKey(definition, "optional") THEN m
        ELSE IF o.div THEN o
        ELSE IF o.res[1] # << >>
          THEN Outcome(Some(DictSet(m.res[1], "optional", o.res[1])), o.pos)
          ELSE Outcome(m.res, o.pos)

\* Parser._parse_element
ParseElement(hp, element, toks, pos) ==
    CASE element.kind = "token" ->
           IF pos < Len(toks) /\ TokenDefEq(toks[pos + 1].type, element.tok)
             THEN Outcome(Some([type |-> toks[pos + 1].type.name,
                                value |-> toks[pos + 1].value]), pos + 1)
             ELSE Outcome(None, pos)
      [] element.kind = "rule" ->
           ParseRule(hp, hp[element.ref].name, hp[element.ref].definition, toks, pos)
      [] element.kind = "dict" ->
           ParseRule(hp, "temp", element.dict, toks, pos)
      [] OTHER -> Outcome(None, pos)

ParseResult(status, node) == [status |-> status, node |-> node]

\* the rule object registered under a name, parsed at pos
ParseNamed(P, name, toks, pos) ==
    ParseRule(P.heap, P.heap[P.rules[name]].name, P.heap[P.rules[name]].definition, toks, pos)

\* a variant of parse that accepts a match that leaves tokens unconsumed
ParseLenient(P, toks, start_rule_name) ==
    IF start_rule_name \notin DOMAIN P.rules THEN ParseResult("KeyError", None)
    ELSE LET r == ParseNamed(P, start_rule_name, toks, 0)
         IN  IF r.div THEN ParseResult("diverge", None)
             ELSE IF r.res = None THEN ParseResult("error", None)
             ELSE ParseResult("ok", r.res)

\* Parser.parse(tokens, start_rule_name)
Parse(P, toks, start_rule_name) ==
    IF start_rule_name \notin DOMAIN P.rules THEN ParseResult("KeyError", None)
    ELSE LET r == ParseNamed(P, start_rule_name, toks, 0)
         IN  IF r.div THEN ParseResult("diverge", None)
             ELSE IF r.res = None \/ r.pos # Len(toks) THEN ParseResult("error", None)
             ELSE ParseResult("ok", r.res)

(***************************************************************************)
(* Python values of the reductions: None, a float (an exact fraction n/d   *)
(* in lowest terms) and a str.                                             *)
(***************************************************************************)
RECURSIVE GCD(_, _)
GCD(a, b) == IF b = 0 THEN a ELSE GCD(b, a % b)

Abs(x) == IF x < 0 THEN -x ELSE x

PyNone == [t |-> "None", n |-> 0, d |-> 1, s |-> << >>]
PyStr(s) == [t |-> "str", n |-> 0, d |-> 1, s |-> s]
PyFloat(n, d) ==
    LET g == GCD(Abs(n), Abs(d))
        sign == IF d < 0 THEN -1 ELSE 1
    IN  [t |-> "float", n |-> (sign * n) \div g, d |-> (sign * d) \div g, s |-> << >>]

DigitValue(c) ==
    CHOOSE v \in 0..9 : <<"0", "1", "2", "3", "4", "5", "6", "7", "8", "9">>[v + 1] = c

RECURSIVE DigitsValue(_)
DigitsValue(s) ==
    IF s = << >> THEN 0
    ELSE DigitsValue(SubSeq(s, 1, Len(s) - 1)) * 10 + DigitValue(s[Len(s)])

RECURSIVE Pow10(_)
Pow10(k) == IF k = 0 THEN 1 ELSE 10 * Pow10(k - 1)

\* float(s) for the text of a NUMBER or a STRING token: Some(value), or None
\* when float raises ValueError (a STRING token's text starts with a quote)
FloatOf(s) ==
    IF s = << >> \/ MatchNumber(s) # Len(s) THEN None
    ELSE LET whole == RunLen(s, DigitChars)
             frac == IF whole < Len(s) THEN Len(s) - whole - 1 ELSE 0
         IN  Some(PyFloat(DigitsValue(Take(s, whole) \o Slice(s, Len(s) - frac)), Pow10(frac)))

\* x <op> y for the operator token kind: [exc, val]
Arith(kind, x, y) ==
    IF x.t # "float" \/ y.t # "float" THEN [exc |-> Some("TypeError"), val |-> PyNone]
    ELSE CASE kind = "PLUS" -> [exc |-> None, val |-> PyFloat(x.n * y.d + y.n * x.d, x.d * y.d)]
           [] kind = "MINUS" -> [exc |-> None, val |-> PyFloat(x.n * y.d - y.n * x.d, x.d * y.d)]
           [] kind = "MULTIPLY" -> [exc |-> None, val |-> PyFloat(x.n * y.n, x.d * y.d)]
           [] kind = "DIVIDE" ->
                IF y.n = 0 THEN [exc |-> Some("ZeroDivisionError"), val |-> PyNone]
                ELSE [exc |-> None, val |-> PyFloat(x.n * y.d, x.d * y.n)]

(***************************************************************************)
(* The state one interpret() call works on: the stack it was passed, the   *)
(* external variables dict, and the record of what happened so far.  An    *)
(* event is the invocation of a reduction ("enter"), the except branch of  *)
(* interpret ("error", with the stack as it was when the reduction was     *)
(* invoked and as it is when interpret returns), the "No interpreting      *)
(* rule" report ("undefined"), a print of a reduction ("print"), a write   *)
(* to the stack ("push", "pop") or to the external variables ("setvar").   *)
(***************************************************************************)
Event(ev, rule, value, before, after) ==
    [ev |-> ev, rule |-> rule, value |-> value, before |-> before, after |-> after]

Log(st, ev, rule, value) ==
    [st EXCEPT !.trace = Append(@, Event(ev, rule, value, << >>, << >>))]

Push(st, value) ==
    [Log(st, "push", "", value) EXCEPT !.stack = Append(@, value)]

Pop(st) ==
    [Log(st, "pop", "", st.stack[Len(st.stack)]) EXCEPT
        !.stack = SubSeq(@, 1, Len(@) - 1)]

SetVar(st, name, value) ==
    [Log(st, "setvar", name, value) EXCEPT !.variables = DictSet(@, name, value)]

\* the outcome of an interpret() call or of a reduction: the value returned,
\* or the exception that leaves it
Return(value, st) == [val |-> value, st |-> st, exc |-> None]
Raise(exception, st) == [val |-> PyNone, st |-> st, exc |-> Some(exception)]

Truthy(node, key) == key \in DOMAIN node /\ node[key] # << >>

RECURSIVE InterpretNode(_, _, _)
RECURSIVE InterpretList(_, _, _)
RECURSIVE InterpretText(_, _, _)
RECURSIVE Reduction(_, _, _)

(***************************************************************************)
(* The reductions of main.py                                               *)
(***************************************************************************)
\* main.py:97-110
MainMath(prog, node, st) ==
    LET a == FloatOf(node["a"]["value"])
        c == FloatOf(node["c"]["value"])
        r == Arith(node["b"]["type"], a[1], c[1])
        st1 == Push(st, r.val)
    IN  IF a = None \/ c = None THEN Raise("ValueError", st)
        ELSE IF r.exc # None THEN Raise(r.exc[1], st)
        ELSE IF Truthy(node, "optional") THEN InterpretList(prog, node["optional"], st1)
        ELSE Return(r.val, st1)

\* main.py:112-137: stack.pop() is evaluated before the right operand
MainContinuer(prog, node, st) ==
    LET top == st.stack[Len(st.stack)]
        st1 == Pop(st)
        rhs == IF node["b"]["type"] = "NUMBER"
                 THEN Return(FloatOf(node["b"]["value"])[1], st1)
                 ELSE InterpretNode(prog, node["b"], st1)
        r == Arith(node["a"]["type"], top, rhs.val)
        st2 == Push(rhs.st, r.val)
    IN  IF st.stack = << >> THEN Raise("IndexError", st)
        ELSE IF rhs.exc # None THEN rhs
        ELSE IF r.exc # None THEN Raise(r.exc[1], rhs.st)
        ELSE IF Truthy(node, "optional") THEN InterpretList(prog, node["optional"], st2)
        ELSE Return(r.val, st2)

\* main.py:139-145
MainParen(prog, node, st) ==
    LET r == InterpretNode(prog, node["b"], st)
        st1 == Push(r.st, r.val)
    IN  IF r.exc # None THEN r
        ELSE IF Truthy(node, "optional") THEN InterpretList(prog, node["optional"], st1)
        ELSE Return(r.val, st1)

\* main.py:147-152: interpret(c) is called without a stack, so on a new one
MainPrint(prog, node, st) ==
    LET r == InterpretNode(prog, node["c"], [st EXCEPT !.stack = << >>])
        back == [r.st EXCEPT !.stack = st.stack]
    IN  IF node["c"]["type"] = "STRING"
          THEN Return(PyNone, Log(st, "print", "print", PyStr(node["c"]["value"])))
        ELSE IF r.exc # None THEN [r EXCEPT !.st = back]
        ELSE Return(PyNone, Log(back, "print", "print", r.val))

(***************************************************************************)
(* The reductions of simplelang/simp.py; variables is the external dict    *)
(***************************************************************************)
\* simp.py:108-110
SimpProgramRule(prog, node, st) == InterpretNode(prog, node["a"], st)

\* a variant of the statements reduction that stops after its first statement
SimpStatementsFirstOnly(prog, node, st) == InterpretNode(prog, node["a"], st)

\* simp.py:112-118
SimpStatements(prog, node, st) ==
    LET r == InterpretNode(prog, node["a"], st)
    IN  IF r.exc # None THEN r
        ELSE IF Truthy(node, "optional") THEN InterpretList(prog, node["optional"], r.st)
        ELSE r

\* simp.py:120-122
SimpStatement(prog, node, st) == InterpretNode(prog, node["a"], st)

\* simp.py:124-130
SimpPrint(prog, node, st) ==
    LET key == node["c"]["value"]
    IN  IF key \in DOMAIN st.variables
          THEN Return(PyNone, Log(st, "print", "print_statement", st.variables[key]))
          ELSE Return(PyNone, Log(st, "print", "print_statement", PyStr(key)))

\* simp.py:132-140: no file exists, so open() raises; None has no replace()
SimpExecuteFile(prog, node, st) ==
    LET key == node["c"]["value"]
    IN  IF key \in DOMAIN st.variables /\ st.variables[key].t # "str"
          THEN Raise("AttributeError", st)
          ELSE Raise("FileNotFoundError", st)

\* simp.py:142-145: the right-hand side is evaluated, then the item is stored
SimpAssignment(prog, node, st) ==
    LET r == InterpretNode(prog, node["d"], st)
    IN  IF r.exc # None THEN r
        ELSE Return(PyNone, SetVar(r.st, node["b"]["value"], r.val))

\* simp.py:147-154
SimpExpression(prog, node, st) ==
    LET a == node["a"]
    IN  IF a["type"] \in {"NUMBER", "STRING"} THEN Return(PyStr(a["value"]), st)
        ELSE IF a["type"] = "IDENTIFIER"
          THEN IF a["value"] \in DOMAIN st.variables
                 THEN Return(st.variables[a["value"]], st)
                 ELSE Raise("KeyError", st)
        ELSE Return(PyNone, st)

SimpReductions ==
    {"program", "statements", "statement", "print_statement", "execute_file",
     "assignment", "expression"}

MainReductions == {"math", "math_continuer", "paren_math", "print"}

(***************************************************************************)
(* Interpreter.interpret                                                   *)
(***************************************************************************)
\* the code of the reduction registered under rule_name, run on a node
Reduction(prog, node, st) ==
    CASE node["type"] = "math" -> MainMath(prog, node, st)
      [] node["type"] = "math_continuer" -> MainContinuer(prog, node, st)
      [] node["type"] = "paren_math" -> MainParen(prog, node, st)
      [] node["type"] = "print" -> MainPrint(prog, node, st)
      [] node["type"] = "program" -> SimpProgramRule(prog, node, st)
      [] node["type"] = "statements" -> SimpStatements(prog, node, st)
      [] node["type"] = "statement" -> SimpStatement(prog, node, st)
      [] node["type"] = "print_statement" -> SimpPrint(prog, node, st)
      [] node["type"] = "execute_file" -> SimpExecuteFile(prog, node, st)
      [] node["type"] = "assignment" -> SimpAssignment(prog, node, st)
      [] node["type"] = "expression" -> SimpExpression(prog, node, st)

\* lines 306-345: dispatch on a parse tree
InterpretNode(prog, node, st) ==
    IF node["type"] \in prog.reductions
      THEN LET r == Reduction(prog, node, Log(st, "enter", node["type"], PyNone))
           IN  IF r.exc # None
                 THEN Return(PyNone,
                        [r.st EXCEPT !.trace =
                            Append(@, Event("error", node["type"], PyStr(<<r.exc[1]>>),
                                            st.stack, r.st.stack))])
                 ELSE r
      ELSE Return(PyNone, Log(st, "undefined", node["type"], PyNone))

\* lines 298-302: a list of parse trees, the first is used
InterpretList(prog, trees, st) ==
    IF trees # << >> THEN InterpretNode(prog, trees[1], st)
    ELSE Raise("ValueError", st)

\* str.lower() on the token names the clients register
Lower(name) ==
    CASE name = "PRINT" -> "print"
      [] name = "NUMBER" -> "number"
      [] name = "STRING" -> "string"
      [] name = "PLUS" -> "plus"
      [] name = "MINUS" -> "minus"
      [] name = "MULTIPLY" -> "multiply"
      [] name = "DIVIDE" -> "divide"
      [] name = "LPAREN" -> "lparen"
      [] name = "RPAREN" -> "rparen"
      [] OTHER -> name

\* lines 279-294: the start rule for a text input
StartRule(P, toks) ==
    LET candidate == IF toks # << >> THEN toks[1].type.name ELSE "math"
    IN  IF "program" \in DOMAIN P.rules THEN "program"
        ELSE IF candidate \in DOMAIN P.rules THEN candidate
        ELSE IF Lower(candidate) \in DOMAIN P.rules THEN Lower(candidate)
        ELSE IF candidate = "LPAREN" /\ "paren_math" \in DOMAIN P.rules THEN "paren_math"
        ELSE "math"

\* lines 275-295: text input; a lexer or parser error leaves interpret as a
\* ValueError, raised before the try block
InterpretText(prog, text, st) ==
    LET lexed == Tokenize(prog.token_defs, text)
        parsed == Parse(prog.parser, lexed.tokens, StartRule(prog.parser, lexed.tokens))
    IN  IF lexed.status # "ok" THEN Raise("ValueError", st)
        ELSE IF parsed.status = "KeyError" THEN Raise("KeyError", st)
        ELSE IF parsed.status # "ok" THEN Raise("ValueError", st)
        ELSE InterpretNode(prog, parsed.node[1], st)

\* interpreter.interpret(text): a top-level call, on a new stack
Interpret(prog, text, variables0) ==
    InterpretText(prog, text, [stack |-> << >>, variables |-> variables0, trace |-> << >>])

(***************************************************************************)
(* Inputs of the catalog and lexer operations                              *)
(***************************************************************************)
MaxChunks == 3
MaxDefs == 3

LitPrint == <<"p", "r", "i", "n", "t">>
LitPrintn == <<"p", "r", "i", "n", "t", "n">>

TokenNames == {"PRINT", "NUMBER", "IDENTIFIER"}
Literals == {LitPrint, LitPrintn, << >>}

\* the catalog a client script registers before it fills the lexer
LexCatalog ==
    AddAutoToken(AddAutoToken(AddToken(AddToken(AddToken(EmptyDict,
        "PRINT", LitPrint), "PRINTN", LitPrintn), "EMPTY", << >>), "NUMBER"), "IDENTIFIER")

\* input texts: up to MaxChunks pieces, each a word, a letter, a blank or a digit
Chunks == {LitPrint, <<"n">>, <<" ">>, <<"1">>}

RECURSIVE Flatten(_)
Flatten(cs) == IF cs = << >> THEN << >> ELSE Head(cs) \o Flatten(Tail(cs))

Texts == {Flatten(cs) : cs \in UNION {[1..n -> Chunks] : n \in 0..MaxChunks}}

(***************************************************************************)
(* Inputs of the parser operations: the two-kind catalog of the math       *)
(* grammar, rule definitions in the shapes the clients write, and token    *)
(* lists produced by the lexer from up to MaxTokens lexemes.               *)
(***************************************************************************)
MaxTokens == 4
MaxHeap == 2

ParseCatalog == AddAutoToken(AddToken(EmptyDict, "PLUS", <<"+">>), "NUMBER")
ParseLexerDefs == <<ParseCatalog["PLUS"], ParseCatalog["NUMBER"]>>

NUMBER == TokAlt(ParseCatalog["NUMBER"])
PLUS == TokAlt(ParseCatalog["PLUS"])

RuleNames == {"math", "math_continuer"}

\* main.py:38-48 (one operator, no STRING operand)
DefMath(rs) ==
    << <<"a", <<NUMBER>> >>, <<"b", <<PLUS>> >>, <<"c", <<NUMBER>> >>,
       <<"optional", <<RuleAlt(rs["math_continuer"])>> >> >>

\* main.py:50-59
DefContinuer(rs) ==
    << <<"a", <<PLUS>> >>, <<"b", <<NUMBER>> >>,
       <<"optional", <<RuleAlt(rs["math_continuer"])>> >> >>

\* two inline alternatives with a common first token, then a second slot
DefChoice ==
    << <<"a", << DictAlt(<< <<"a", <<NUMBER>> >> >>),
                 DictAlt(<< <<"a", <<NUMBER>> >>, <<"b", <<PLUS>> >> >>) >> >>,
       <<"b", <<NUMBER>> >> >>

\* an optional slot with overlapping alternatives
DefList ==
    << <<"a", <<NUMBER>> >>,
       <<"optional", << PLUS,
                        DictAlt(<< <<"a", <<PLUS>> >>, <<"b", <<NUMBER>> >> >>),
                        NUMBER >> >> >>

\* an optional slot holding an inline empty dict
DefEmptyOptional ==
    << <<"a", <<NUMBER>> >>, <<"optional", <<DictAlt(<< >>)>> >> >>

\* the definitions a client can write when the registry is rs: parser[name]
\* raises KeyError for a name that was never created
Definitions(rs) ==
    {DefChoice, DefList, DefEmptyOptional}
      \cup (IF "math_continuer" \in DOMAIN rs THEN {DefMath(rs), DefContinuer(rs)} ELSE {})

Lexemes == {<<"1">>, <<"+">>}

RECURSIVE JoinBlank(_)
JoinBlank(cs) ==
    IF cs = << >> THEN << >>
    ELSE IF Len(cs) = 1 THEN cs[1]
    ELSE cs[1] \o <<" ">> \o JoinBlank(Tail(cs))

TokenLists ==
    {Tokenize(ParseLexerDefs, JoinBlank(cs)).tokens :
        cs \in UNION {[1..n -> Lexemes] : n \in 0..MaxTokens}}

ParseInputs == [tokens : TokenLists, start : RuleNames]

(***************************************************************************)
(* The client main.py: its catalog, lexer, grammar and reductions          *)
(***************************************************************************)
MainCatalog ==
    AddToken(AddAutoToken(AddAutoToken(AddToken(AddToken(AddToken(AddToken(AddToken(AddToken(
        EmptyDict, "PLUS", <<"+">>), "MINUS", <<"-">>), "MULTIPLY", <<"*">>),
        "DIVIDE", <<"/">>), "LPAREN", <<"(">>), "RPAREN", <<")">>),
        "NUMBER"), "STRING"), "PRINT", LitPrint)

MainLexerDefs ==
    [i \in 1..9 |-> MainCatalog[<<"PLUS", "MINUS", "MULTIPLY", "DIVIDE", "LPAREN", "RPAREN",
                                   "NUMBER", "STRING", "PRINT">>[i]]]

MainTok(name) == TokAlt(MainCatalog[name])
MainOperators == <<MainTok("PLUS"), MainTok("MINUS"), MainTok("MULTIPLY"), MainTok("DIVIDE")>>

\* main.py:34-37
MainRulesCreated ==
    NewParsingRule(NewParsingRule(NewParsingRule(NewParsingRule(
        ParserState(<< >>, EmptyDict), "paren_math"), "math"), "math_continuer"), "print")

MainRef(name) == RuleAlt(MainRulesCreated.rules[name])

\* main.py:38-48
MainDefMath ==
    << <<"a", <<MainTok("NUMBER"), MainTok("STRING")>> >>,
       <<"b", MainOperators>>,
       <<"c", <<MainTok("NUMBER"), MainTok("STRING")>> >>,
       <<"optional", <<MainRef("math_continuer")>> >> >>

\* main.py:50-59
MainDefContinuer ==
    << <<"a", MainOperators>>,
       <<"b", <<MainTok("NUMBER"), MainTok("STRING"), MainRef("paren_math")>> >>,
       <<"optional", <<MainRef("math_continuer")>> >> >>

\* main.py:61-68
MainDefParen ==
    << <<"a", <<MainTok("LPAREN")>> >>,
       <<"b", <<MainRef("math"), MainRef("paren_math"), MainRef("math_continuer")>> >>,
       <<"c", <<MainTok("RPAREN")>> >>,
       <<"optional", <<MainRef("math_continuer")>> >> >>

\* main.py:70-75
MainDefPrint ==
    << <<"a", <<MainTok("PRINT")>> >>,
       <<"b", <<MainTok("LPAREN")>> >>,
       <<"c", <<MainTok("STRING"), MainRef("math"), MainRef("paren_math"),
                MainRef("math_continuer")>> >>,
       <<"d", <<MainTok("RPAREN")>> >> >>

MainParser ==
    SetItem(SetItem(SetItem(SetItem(MainRulesCreated,
        "math", MainDefMath), "math_continuer", MainDefContinuer),
        "paren_math", MainDefParen), "print", MainDefPrint)

MainProgram ==
    [token_defs |-> MainLexerDefs, parser |-> MainParser, reductions |-> MainReductions]

\* the lines typed at the prompt: up to MaxLexemes lexemes separated by blanks
MaxLexemes == 5
MainLexemes == {<<"3">>, <<"0">>, <<"+">>, <<"/">>, <<"(">>, <<")">>}
MainTexts == {JoinBlank(cs) : cs \in UNION {[1..n -> MainLexemes] : n \in 0..MaxLexemes}}

\* and the arithmetic chains operand (op operand)* of up to MaxOps operators,
\* an operand being a number or a parenthesised group
MaxOps == 3
ChainGroup == JoinBlank(<< <<"(">>, <<"2">>, <<"+">>, <<"3">>, <<")">> >>)
ChainOperands == {<<"3">>, <<"4">>, ChainGroup}
ChainOperators == {<<"+">>, <<"*">>}
Interleave(operands, operators) ==
    [i \in 1..(2 * Len(operators) + 1) |->
        IF i % 2 = 1 THEN operands[(i + 1) \div 2] ELSE operators[i \div 2]]
ChainTexts ==
    UNION {{JoinBlank(Interleave(os, ps)) :
                os \in [1..(k + 1) -> ChainOperands], ps \in [1..k -> ChainOperators]} :
           k \in 0..MaxOps}

(***************************************************************************)
(* The client simplelang/simp.py: catalog, lexer, grammar and reductions   *)
(***************************************************************************)
LitExecuteFile == <<"e", "x", "e", "c", "u", "t", "e", "_", "f", "i", "l", "e">>
LitLet == <<"l", "e", "t">>

\* simp.py:10-19
SimpCatalog ==
    AddAutoToken(AddToken(AddAutoToken(AddToken(AddAutoToken(AddToken(AddToken(AddToken(
    AddToken(AddToken(EmptyDict, "PRINT", LitPrintn), "EXECUTE_FILE", LitExecuteFile),
        "LPAREN", <<"(">>), "RPAREN", <<")">>), "SEMICOLON", <<";">>), "STRING"),
        "ASSIGN", <<"=">>), "NUMBER"), "LET", LitLet), "IDENTIFIER")

\* simp.py:21-32
SimpLexerDefs ==
    [i \in 1..10 |-> SimpCatalog[<<"PRINT", "LPAREN", "RPAREN", "SEMICOLON", "STRING",
                                    "EXECUTE_FILE", "ASSIGN", "NUMBER", "IDENTIFIER",
                                    "LET">>[i]]]

SimpTok(name) == TokAlt(SimpCatalog[name])

\* simp.py:34-40
SimpRulesCreated ==
    NewParsingRule(NewParsingRule(NewParsingRule(NewParsingRule(NewParsingRule(
    NewParsingRule(NewParsingRule(ParserState(<< >>, EmptyDict),
        "program"), "statements"), "statement"), "print_statement"), "execute_file"),
        "assignment"), "expression")

SimpRef(name) == RuleAlt(SimpRulesCreated.rules[name])

\* simp.py:42-79
SimpDefProgram == << <<"a", <<SimpRef("statements")>> >> >>

SimpDefStatements ==
    << <<"a", <<SimpRef("statement")>> >>,
       <<"optional", <<SimpRef("statements")>> >> >>

SimpDefStatement ==
    << <<"a", <<SimpRef("print_statement"), SimpRef("execute_file"), SimpRef("assignment")>> >>,
       <<"b", <<SimpTok("SEMICOLON")>> >> >>

SimpDefPrint ==
    << <<"a", <<SimpTok("PRINT")>> >>,
       <<"b", <<SimpTok("LPAREN")>> >>,
       <<"c", <<SimpTok("STRING"), SimpTok("IDENTIFIER")>> >>,
       <<"d", <<SimpTok("RPAREN")>> >> >>

SimpDefExecuteFile ==
    << <<"a", <<SimpTok("EXECUTE_FILE")>> >>,
       <<"b", <<SimpTok("LPAREN")>> >>,
       <<"c", <<SimpTok("STRING"), SimpTok("IDENTIFIER")>> >>,
       <<"d", <<SimpTok("RPAREN")>> >> >>

SimpDefAssignment ==
    << <<"a", <<SimpTok("LET")>> >>,
       <<"b", <<SimpTok("IDENTIFIER")>> >>,
       <<"c", <<SimpTok("ASSIGN")>> >>,
       <<"d", <<SimpRef("expression")>> >> >>

SimpDefExpression ==
    << <<"a", <<SimpTok("NUMBER"), SimpTok("STRING"), SimpTok("IDENTIFIER")>> >> >>

SimpParser ==
    SetItem(SetItem(SetItem(SetItem(SetItem(SetItem(SetItem(SimpRulesCreated,
        "program", SimpDefProgram), "statements", SimpDefStatements),
        "statement", SimpDefStatement), "print_statement", SimpDefPrint),
        "execute_file", SimpDefExecuteFile), "assignment", SimpDefAssignment),
        "expression", SimpDefExpression)

SimpProgram ==
    [token_defs |-> SimpLexerDefs, parser |-> SimpParser, reductions |-> SimpReductions]

\* the lines typed at the prompt: up to MaxStatements statements on a line
MaxStatements == 2
StrA == <<"\"", "a", "\"">>
SimpStatementTexts ==
    { JoinBlank(<<LitLet, <<"x">>, <<"=">>, <<"5">>, <<";">>>>),
      JoinBlank(<<LitLet, <<"x">>, <<"=">>, <<"y">>, <<";">>>>),
      JoinBlank(<<LitLet, <<"y">>, <<"=">>, StrA, <<";">>>>),
      JoinBlank(<<LitPrintn, <<"(">>, <<"x">>, <<")">>, <<";">>>>),
      JoinBlank(<<LitExecuteFile, <<"(">>, StrA, <<")">>, <<";">>>>) }
SimpTexts ==
    {JoinBlank(cs) : cs \in UNION {[1..n -> SimpStatementTexts] : n \in 0..MaxStatements}}

(***************************************************************************)
(* Actions: the token catalog                                              *)
(***************************************************************************)
add_token(name, literal) ==
    /\ tokens' = AddToken(tokens, name, literal)
    /\ call' = [op |-> "add_token", name |-> name, literal |-> literal]
    /\ UNCHANGED <<token_defs, heap, rules, variables, input>>

add_auto_token(name) ==
    /\ tokens' = AddAutoToken(tokens, name)
    /\ call' = [op |-> "add_auto_token", name |-> name]
    /\ UNCHANGED <<token_defs, heap, rules, variables, input>>

(***************************************************************************)
(* Actions: the lexer                                                      *)
(***************************************************************************)
\* lexer.add_tokens([tokentype[name]])
add_tokens(name) ==
    /\ name \in DOMAIN tokens
    /\ Len(token_defs) < MaxDefs
    /\ token_defs' = token_defs \o <<tokens[name]>>
    /\ call' = [op |-> "add_tokens", name |-> name]
    /\ UNCHANGED <<tokens, heap, rules, variables, input>>

tokenize ==
    /\ call' = [op |-> "tokenize", text |-> input, result |-> Tokenize(token_defs, input)]
    /\ UNCHANGED <<tokens, token_defs, heap, rules, variables, input>>

NoCall == [op |-> "init"]

InitCatalog ==
    /\ tokens = EmptyDict
    /\ token_defs = << >>
    /\ heap = << >>
    /\ rules = EmptyDict
    /\ variables = EmptyDict
    /\ input = << >>
    /\ call = NoCall

NextCatalog ==
    \/ \E name \in TokenNames, literal \in Literals : add_token(name, literal)
    \/ \E name \in TokenNames : add_auto_token(name)

SpecCatalog == InitCatalog /\ [][NextCatalog]_vars

InitLex ==
    /\ tokens = LexCatalog
    /\ token_defs = << >>
    /\ heap = << >>
    /\ rules = EmptyDict
    /\ variables = EmptyDict
    /\ input \in Texts
    /\ call = NoCall

NextLex ==
    \/ \E name \in DOMAIN LexCatalog : add_tokens(name)
    \/ tokenize

SpecLex == InitLex /\ [][NextLex]_vars

(***************************************************************************)
(* Actions: the rule registry and the parser                               *)
(***************************************************************************)
new_parsing_rule(name) ==
    /\ Len(heap) < MaxHeap
    /\ LET P == Release(NewParsingRule(ParserState(heap, rules), name))
       IN  heap' = P.heap /\ rules' = P.rules
    /\ call' = [op |-> "new_parsing_rule", name |-> name]
    /\ UNCHANGED <<tokens, token_defs, variables, input>>

\* parser[key] = value
setitem(key, value) ==
    /\ key \in DOMAIN rules \/ Len(heap) < MaxHeap
    /\ LET P == Release(SetItem(ParserState(heap, rules), key, value))
       IN  heap' = P.heap /\ rules' = P.rules
    /\ call' = [op |-> "setitem", name |-> key]
    /\ UNCHANGED <<tokens, token_defs, variables, input>>

parse ==
    /\ call' = [op |-> "parse",
                result |-> Parse(ParserState(heap, rules), input.tokens, input.start)]
    /\ UNCHANGED <<tokens, token_defs, heap, rules, variables, input>>

InitParse ==
    /\ tokens = ParseCatalog
    /\ token_defs = ParseLexerDefs
    /\ heap = << >>
    /\ rules = EmptyDict
    /\ variables = EmptyDict
    /\ input \in ParseInputs
    /\ call = NoCall

NextParse ==
    \/ \E name \in RuleNames : new_parsing_rule(name)
    \/ \E key \in RuleNames : \E value \in Definitions(rules) : setitem(key, value)
    \/ parse

SpecParse == InitParse /\ [][NextParse]_vars

(***************************************************************************)
(* Actions: the prompt loop of main.py (lines 169-176)                     *)
(***************************************************************************)
interpret_main ==
    /\ call' = [op |-> "interpret", result |-> Interpret(MainProgram, input, EmptyDict)]
    /\ UNCHANGED <<tokens, token_defs, heap, rules, variables, input>>

InitMain ==
    /\ tokens = MainCatalog
    /\ token_defs = MainLexerDefs
    /\ heap = MainParser.heap
    /\ rules = MainParser.rules
    /\ variables = EmptyDict
    /\ input \in MainTexts \cup ChainTexts
    /\ call = NoCall

NextMain == interpret_main

SpecMain == InitMain /\ [][NextMain]_vars

(***************************************************************************)
(* Actions: the prompt loop of simplelang/simp.py (lines 162-169); the     *)
(* variables dict lives as long as the process                             *)
(***************************************************************************)
\* text = input("> ")
read_line ==
    /\ call.op # "input"
    /\ \E text \in SimpTexts : input' = text
    /\ call' = [op |-> "input"]
    /\ UNCHANGED <<tokens, token_defs, heap, rules, variables>>

\* interpreter.interpret(text)
interpret_simp ==
    /\ call.op = "input"
    /\ call' = [op |-> "interpret", result |-> Interpret(SimpProgram, input, variables)]
    /\ variables' = call'.result.st.variables
    /\ UNCHANGED <<tokens, token_defs, heap, rules, input>>

InitSimp ==
    /\ tokens = SimpCatalog
    /\ token_defs = SimpLexerDefs
    /\ heap = SimpParser.heap
    /\ rules = SimpParser.rules
    /\ variables = EmptyDict
    /\ input = << >>
    /\ call = NoCall

NextSimp == read_line \/ interpret_simp

SpecSimp == InitSimp /\ [][NextSimp]_vars

(***************************************************************************)
(* C1: at every non-whitespace position tokenize picks the kind by         *)
(* first-match: the first registered literal kind whose literal is a       *)
(* prefix of the remaining text wins, even when a later literal is a       *)
(* longer prefix; pattern kinds are tried only when no literal is a        *)
(* prefix, in registration order, the first that matches winning; and the  *)
(* lexer fails only where neither a literal nor a pattern matches.         *)
(***************************************************************************)
IsPrefixOf(lit, rest) == Len(lit) <= Len(rest) /\ SubSeq(rest, 1, Len(lit)) = lit

LiteralHits(defs, rest) ==
    {j \in 1..Len(defs) : defs[j].value # None /\ IsPrefixOf(defs[j].value[1], rest)}

PatternHits(defs, rest) ==
    {j \in 1..Len(defs) : defs[j].value = None /\ ReMatch(defs[j].pattern[1], rest) >= 0}

C1_FirstMatch ==
    call.op = "tokenize" =>
        LET text == Strip(call.text)
            r == call.result
        IN  /\ \A i \in 1..Len(r.tokens) :
                  LET t == r.tokens[i]
                      rest == Slice(text, t.position)
                      lits == LiteralHits(token_defs, rest)
                      pats == PatternHits(token_defs, rest)
                  IN  IF lits # {}
                        THEN /\ t.type = token_defs[Min(lits)]
                             /\ t.value = token_defs[Min(lits)].value[1]
                        ELSE /\ pats # {}
                             /\ t.type = token_defs[Min(pats)]
                             /\ t.value = Take(rest, ReMatch(t.type.pattern[1], rest))
            /\ r.status = "error" =>
                  /\ r.position < Len(text)
                  /\ text[r.position + 1] \notin SpaceChars
                  /\ LiteralHits(token_defs, Slice(text, r.position)) = {}
                  /\ PatternHits(token_defs, Slice(text, r.position)) = {}

\* a token of the first literal kind where a later literal is a longer prefix,
\* and, in the same run, a token of a pattern kind registered before a literal
C1_Witness ==
    /\ call.op = "tokenize"
    /\ \E i \in 1..Len(call.result.tokens) :
          LET t == call.result.tokens[i]
              rest == Slice(Strip(call.text), t.position)
          IN  /\ t.type.value # None
              /\ \E k \in LiteralHits(token_defs, rest) :
                    Len(token_defs[k].value[1]) > Len(t.value)
    /\ \E i \in 1..Len(call.result.tokens) : call.result.tokens[i].type.value = None

(***************************************************************************)
(* C8: registration is asymmetric.  add_token(name, literal) always        *)
(* leaves name registered as the literal kind of that literal, whatever    *)
(* was there before, and touches no other name; add_auto_token(name)       *)
(* leaves the catalog unchanged when name is already registered; and in    *)
(* every state each registered name maps to one kind, carrying that name,  *)
(* that has a literal value or a pattern and never both.                   *)
(***************************************************************************)
C8_Step ==
    /\ call'.op = "add_token" =>
          /\ DOMAIN tokens' = DOMAIN tokens \cup {call'.name}
          /\ tokens'[call'.name].value = Some(call'.literal)
          /\ tokens'[call'.name].pattern = None
          /\ \A n \in DOMAIN tokens \ {call'.name} : tokens'[n] = tokens[n]
    /\ (call'.op = "add_auto_token" /\ call'.name \in DOMAIN tokens) => tokens' = tokens
    /\ (call'.op = "add_auto_token" /\ call'.name \notin DOMAIN tokens) =>
          /\ DOMAIN tokens' = DOMAIN tokens \cup {call'.name}
          /\ tokens'[call'.name].value = None
          /\ tokens'[call'.name].pattern # None
          /\ \A n \in DOMAIN tokens : tokens'[n] = tokens[n]

C8_Kinds ==
    \A n \in DOMAIN tokens :
        /\ tokens[n].name = n
        /\ (tokens[n].value = None) # (tokens[n].pattern = None)

C8_Asymmetric == [][C8_Step]_vars /\ []C8_Kinds

\* add_auto_token has just been called for a name registered as a literal kind
C8_Witness ==
    /\ call.op = "add_auto_token"
    /\ call.name \in DOMAIN tokens
    /\ tokens[call.name].value # None

(***************************************************************************)
(* Helpers of the parser claims                                            *)
(***************************************************************************)
TheParser == ParserState(heap, rules)
Positions == 0..Len(input.tokens)
KindNames(toks) == [i \in 1..Len(toks) |-> toks[i].type.name]

\* _parse_rule on the ParsingRule object behind handle h
ParseObject(h, pos) ==
    ParseRule(heap, heap[h].name, heap[h].definition, input.tokens, pos)

\* the alternatives of alts that parse at pos, by index
Matching(alts, pos) ==
    {j \in 1..Len(alts) : ParseElement(heap, alts[j], input.tokens, pos).res # None}

(***************************************************************************)
(* C2: parse returns a node only if the start rule matches from position 0 *)
(* and the match ends exactly at len(tokens), and the node is that match;  *)
(* when the start rule fails, or matches and leaves at least one token     *)
(* unconsumed, parse fails with a parse error and returns no node.         *)
(***************************************************************************)
C2_FullConsumption ==
    (call.op = "parse" /\ input.start \in DOMAIN rules) =>
        LET r == ParseNamed(TheParser, input.start, input.tokens, 0)
        IN  /\ call.result.status = "ok" =>
                  /\ r.res # None
                  /\ r.pos = Len(input.tokens)
                  /\ call.result.node = r.res
            /\ (~r.div /\ (r.res = None \/ r.pos < Len(input.tokens))) =>
                  /\ call.result.status = "error"
                  /\ call.result.node = None

\* NUMBER PLUS NUMBER NUMBER against a rule that matches the first three
C2_Witness ==
    /\ call.op = "parse"
    /\ input.start \in DOMAIN rules
    /\ KindNames(input.tokens) = <<"NUMBER", "PLUS", "NUMBER", "NUMBER">>
    /\ LET r == ParseNamed(TheParser, input.start, input.tokens, 0)
       IN  ~r.div /\ r.res # None /\ r.pos = 3
    /\ call.result.status = "error"

(***************************************************************************)
(* C3: a mandatory slot commits to its first matching alternative.  After  *)
(* a parse, for every rule object of the grammar parsed against and every  *)
(* entry position in the token list whose parse returns: going through     *)
(* the mandatory slots in order, each slot takes the lowest-index          *)
(* alternative that parses at the position reached, and the next slot      *)
(* starts where it ended; the rule matches exactly when this committed     *)
(* chain reaches the last slot, and then each slot's value is the value of *)
(* that alternative.  A later alternative is not reconsidered when a       *)
(* following slot fails.                                                   *)
(***************************************************************************)
RECURSIVE CommittedChain(_, _, _)
CommittedChain(parts, i, pos) ==
    IF i > Len(parts) THEN [ok |-> TRUE, values |-> << >>, pos |-> pos]
    ELSE LET hits == Matching(parts[i][2], pos)
             first == ParseElement(heap, parts[i][2][Min(hits)], input.tokens, pos)
             rest == CommittedChain(parts, i + 1, first.pos)
         IN  IF hits = {} THEN [ok |-> FALSE, values |-> << >>, pos |-> pos]
             ELSE [ok |-> rest.ok, values |-> <<first.res[1]>> \o rest.values, pos |-> rest.pos]

C3_OrderedChoice ==
    call.op = "parse" => \A h \in 1..Len(heap) : \A p \in Positions :
        LET r == ParseObject(h, p)
            parts == MandatoryParts(heap[h].definition)
            c == CommittedChain(parts, 1, p)
        IN  ~r.div =>
              /\ (r.res # None) <=> c.ok
              /\ r.res # None =>
                    \A i \in 1..Len(parts) : r.res[1][parts[i][1]] = c.values[i]

\* parse has failed on a rule whose first slot took its first alternative and
\* whose second slot then failed, although the first slot's second alternative
\* also parses there and the second slot parses after it
C3_Witness ==
    /\ call.op = "parse"
    /\ input.start \in DOMAIN rules
    /\ call.result.status = "error"
    /\ LET parts == MandatoryParts(heap[rules[input.start]].definition)
       IN  /\ Len(parts) = 2
           /\ {1, 2} \subseteq Matching(parts[1][2], 0)
           /\ Matching(parts[2][2],
                        ParseElement(heap, parts[1][2][1], input.tokens, 0).pos) = {}
           /\ Matching(parts[2][2],
                        ParseElement(heap, parts[1][2][2], input.tokens, 0).pos) # {}

(***************************************************************************)
(* C4: rule matching is transactional.  After a parse, for every rule      *)
(* object and every position p of the token list: when the rule entered at *)
(* p fails, _parse_rule returns no node and position p, however many slots *)
(* had matched; and a caller that tries the rule as an alternative goes on *)
(* exactly as if that alternative were not in its list.                    *)
(***************************************************************************)
CallerWith(h) == << <<"a", <<RuleAlt(h), NUMBER, PLUS>> >> >>
CallerWithout == << <<"a", <<NUMBER, PLUS>> >> >>

C4_Transactional ==
    call.op = "parse" => \A h \in 1..Len(heap) : \A p \in Positions :
        LET r == ParseObject(h, p)
        IN  (~r.div /\ r.res = None) =>
              /\ r.pos = p
              /\ ParseRule(heap, "temp", CallerWith(h), input.tokens, p)
                    = ParseRule(heap, "temp", CallerWithout, input.tokens, p)

\* parse has failed on a start rule whose earlier slots had consumed tokens
C4_Witness ==
    /\ call.op = "parse"
    /\ input.start \in DOMAIN rules
    /\ call.result.status = "error"
    /\ LET h == rules[input.start]
           m == ParseParts(heap, MandatoryParts(heap[h].definition), 1,
                           input.tokens, 0, [type |-> heap[h].name])
       IN  ~m.div /\ m.res = None /\ m.pos >= 2 /\ ParseObject(h, 0).pos = 0

(***************************************************************************)
(* C5: the "optional" slot never makes the rule fail.  After a parse, for  *)
(* every rule object with an "optional" slot and every entry position of   *)
(* the token list where the mandatory slots match and the rule's parse     *)
(* returns: the rule matches; starting                                     *)
(* where the mandatory slots ended, each iteration takes the lowest-index  *)
(* optional alternative that parses and continues where it ended, until no *)
(* optional alternative parses, and the rule returns that position; the    *)
(* node has an "optional" key if and only if at least one iteration        *)
(* succeeded, and then it holds the iterations' values in order.  The      *)
(* mandatory slots' values are those of the mandatory match.               *)
(***************************************************************************)
RECURSIVE OptionalChain(_, _)
OptionalChain(opts, pos) ==
    LET hits == Matching(opts, pos)
        first == ParseElement(heap, opts[Min(hits)], input.tokens, pos)
        rest == OptionalChain(opts, first.pos)
    IN  IF hits = {} THEN [values |-> << >>, pos |-> pos]
        ELSE [values |-> <<first.res[1]>> \o rest.values, pos |-> rest.pos]

C5_Optional ==
    call.op = "parse" => \A h \in 1..Len(heap) : \A p \in Positions :
        LET definition == heap[h].definition
            r == ParseObject(h, p)
            m == ParseParts(heap, MandatoryParts(definition), 1, input.tokens, p,
                            [type |-> heap[h].name])
            c == OptionalChain(Lookup(definition, "optional"), m.pos)
        IN  (HasKey(definition, "optional") /\ ~r.div /\ m.res # None) =>
              /\ r.res # None
              /\ r.pos = c.pos
              /\ Matching(Lookup(definition, "optional"), r.pos) = {}
              /\ ("optional" \in DOMAIN r.res[1]) <=> (c.values # << >>)
              /\ c.values # << >> => r.res[1]["optional"] = c.values
              /\ \A k \in DOMAIN m.res[1] : r.res[1][k] = m.res[1][k]

\* parse has returned a node whose optional list holds three results, taken
\* by different alternatives
C5_Witness ==
    /\ call.op = "parse"
    /\ call.result.status = "ok"
    /\ "optional" \in DOMAIN call.result.node[1]
    /\ LET opt == call.result.node[1]["optional"]
       IN  /\ Len(opt) = 3
           /\ opt[1]["type"] = "PLUS"
           /\ opt[3]["type"] = "NUMBER"

(***************************************************************************)
(* C6: a grammar whose "optional" slot holds an alternative that can match *)
(* zero tokens (an inline empty dict, or a rule that has no definition) is *)
(* rejected when it is installed, so that the registry never holds one and *)
(* no parse enters an optional loop whose iteration succeeds without       *)
(* advancing.                                                              *)
(***************************************************************************)
MatchesEmpty(alt) ==
    LET r == ParseElement(heap, alt, << >>, 0) IN r.div \/ r.res # None

\* a definition has been installed whose "optional" slot holds an alternative
\* that matched zero tokens at that moment
InstalledZeroWidth(h) ==
    /\ HasKey(heap[h].definition, "optional")
    /\ \E j \in 1..Len(Lookup(heap[h].definition, "optional")) :
          MatchesEmpty(Lookup(heap[h].definition, "optional")[j])

C6_ZeroWidthOptionalRejected ==
    call.op = "parse" =>
        /\ call.result.status # "diverge"
        /\ \A name \in DOMAIN rules : ~InstalledZeroWidth(rules[name])

(***************************************************************************)
(* C7: creating a rule by name is idempotent: new_parsing_rule(name) for a *)
(* name that already exists leaves the registry entry the same rule handle *)
(* with its definition intact.                                             *)
(***************************************************************************)
C7_Step ==
    (call'.op = "new_parsing_rule" /\ call' # call /\ call'.name \in DOMAIN rules) =>
        /\ rules'[call'.name] = rules[call'.name]
        /\ heap'[rules'[call'.name]].definition = heap[rules[call'.name]].definition

C7_IdempotentCreation == [][C7_Step]_vars

(***************************************************************************)
(* C9: a failure inside a reduction terminates the top-level interpret()   *)
(* call it belongs to: once a reduction of that call has raised, no        *)
(* further reduction of the call is run, and no later write to the stack   *)
(* or to the external state happens in the call.                           *)
(***************************************************************************)
C9_FailureTerminates ==
    call.op = "interpret" =>
        LET trace == call.result.st.trace
        IN  \A i \in 1..Len(trace) : \A j \in (i + 1)..Len(trace) :
                trace[i].ev = "error" =>
                    trace[j].ev \notin {"enter", "push", "pop", "setvar"}

(***************************************************************************)
(* C10: when a reduction fails at run time the error is caught at the      *)
(* dispatch boundary of interpret() and reported, and the entries that     *)
(* were on the shared stack before that reduction was invoked are still    *)
(* there, in the same order and with the same values, when that            *)
(* interpret() returns.                                                    *)
(***************************************************************************)
C10_StackPreserved ==
    call.op = "interpret" =>
        \A i \in 1..Len(call.result.st.trace) :
            LET e == call.result.st.trace[i]
            IN  e.ev = "error" => IsPrefixOf(e.before, e.after)

(***************************************************************************)
(* C11: with the math grammar of main.py, interpreting a chain             *)
(* operand (op operand)* that the grammar accepts, a continuation operand  *)
(* being a number or a parenthesised group, returns the strict             *)
(* left-to-right fold of the operators over the operand values, with no    *)
(* precedence, each group contributing the value of what is inside its     *)
(* parentheses.                                                            *)
(***************************************************************************)
FoldResult(ok, val, next) == [ok |-> ok, val |-> val, next |-> next]
FoldFail == FoldResult(FALSE, PyNone, 0)
OperatorKinds == {"PLUS", "MINUS", "MULTIPLY", "DIVIDE"}

RECURSIVE FoldOperand(_, _)
RECURSIVE FoldRest(_, _, _)
RECURSIVE FoldChain(_, _)

\* the value of the operand that starts at token i: a number, or a group
FoldOperand(toks, i) ==
    IF i > Len(toks) THEN FoldFail
    ELSE IF toks[i].type.name = "NUMBER"
      THEN FoldResult(TRUE, FloatOf(toks[i].value)[1], i + 1)
    ELSE IF toks[i].type.name = "LPAREN"
      THEN LET inner == FoldChain(toks, i + 1)
           IN  IF inner.ok /\ inner.next <= Len(toks)
                  /\ toks[inner.next].type.name = "RPAREN"
                 THEN FoldResult(TRUE, inner.val, inner.next + 1)
                 ELSE FoldFail
    ELSE FoldFail

\* (op operand)* from token i on, folded onto the value so far
FoldRest(toks, i, acc) ==
    IF i <= Len(toks) /\ toks[i].type.name \in OperatorKinds
      THEN LET o == FoldOperand(toks, i + 1)
               r == Arith(toks[i].type.name, acc, o.val)
           IN  IF ~o.ok \/ r.exc # None THEN FoldFail
               ELSE FoldRest(toks, o.next, r.val)
      ELSE FoldResult(TRUE, acc, i)

FoldChain(toks, i) ==
    LET o == FoldOperand(toks, i)
    IN  IF o.ok THEN FoldRest(toks, o.next, o.val) ELSE FoldFail

C11_LeftFold ==
    (call.op = "interpret" /\ call.result.exc = None) =>
        LET toks == Tokenize(token_defs, input).tokens
            fold == FoldChain(toks, 1)
        IN  (fold.ok /\ fold.next = Len(toks) + 1) => call.result.val = fold.val

(***************************************************************************)
(* C12: with the simplelang grammar, interpreting a program of n >= 1      *)
(* statements runs the reduction of every statement exactly once and in    *)
(* source order, all against the same external variables map: a value      *)
(* written by the assignment of statement i is the value read by the       *)
(* print or expression reduction of a later statement, and no statement    *)
(* is skipped.                                                             *)
(***************************************************************************)
StatementKeywords == {"PRINT", "EXECUTE_FILE", "LET"}

StatementRuleOf(keyword) ==
    CASE keyword = "PRINT" -> "print_statement"
      [] keyword = "EXECUTE_FILE" -> "execute_file"
      [] keyword = "LET" -> "assignment"

\* the positions of the tokens that open a statement, in source order
KeywordPositions(toks) ==
    LET IsKeyword(i) == toks[i].type.name \in StatementKeywords
    IN  SelectSeq([i \in 1..Len(toks) |-> i], IsKeyword)

\* the statement reductions invoked, in the order of their invocation
StatementEnters(trace) ==
    LET IsEnter(e) == e.ev = "enter" /\ e.rule \in {"print_statement", "execute_file", "assignment"}
        enters == SelectSeq(trace, IsEnter)
    IN  [i \in 1..Len(enters) |-> enters[i].rule]

\* the value a statement sees for the token t under the variables map m
ReadUnder(m, t) == IF t.value \in DOMAIN m THEN m[t.value] ELSE PyStr(t.value)

\* the trace from event i on, statement k being the one under way and m the
\* map as the statements before have left it: every print emits, and every
\* assignment stores, what m holds; the map at the end is final
RECURSIVE FlowFrom(_, _, _, _, _, _, _)
FlowFrom(trace, i, k, m, toks, kw, final) ==
    IF i > Len(trace) THEN m = final
    ELSE LET e == trace[i]
         IN  CASE e.ev = "enter" /\ e.rule = "statement" ->
                    FlowFrom(trace, i + 1, k + 1, m, toks, kw, final)
               [] e.ev = "print" ->
                    /\ toks[kw[k]].type.name = "PRINT"
                    /\ e.value = ReadUnder(m, toks[kw[k] + 2])
                    /\ FlowFrom(trace, i + 1, k, m, toks, kw, final)
               [] e.ev = "setvar" ->
                    /\ toks[kw[k]].type.name = "LET"
                    /\ e.rule = toks[kw[k] + 1].value
                    /\ (toks[kw[k] + 3].type.name # "IDENTIFIER"
                          \/ toks[kw[k] + 3].value \in DOMAIN m)
                          => e.value = ReadUnder(m, toks[kw[k] + 3])
                    /\ \A m1 \in {DictSet(m, e.rule, e.value)} :
                          FlowFrom(trace, i + 1, k, m1, toks, kw, final)
               [] OTHER -> FlowFrom(trace, i + 1, k, m, toks, kw, final)

C12_Step ==
    (call'.op = "interpret" /\ call'.result.exc = None) =>
        \A toks \in {Tokenize(token_defs, input').tokens} :
        \A kw \in {KeywordPositions(toks)} :
        \A trace \in {call'.result.st.trace} :
            /\ Len(kw) >= 1
            /\ StatementEnters(trace) =
                   [k \in 1..Len(kw) |-> StatementRuleOf(toks[kw[k]].type.name)]
            /\ FlowFrom(trace, 1, 0, variables, toks, kw, variables')

C12_StatementsInOrder == [][C12_Step]_vars

\* two statements on one line, the first stores "5" under x, the second emits it
C12_Witness ==
    /\ call.op = "interpret"
    /\ call.result.exc = None
    /\ LET trace == call.result.st.trace
       IN  /\ Len(StatementEnters(trace)) >= 2
           /\ \E i \in 1..Len(trace) : \E j \in (i + 1)..Len(trace) :
                  /\ trace[i].ev = "setvar" /\ trace[i].rule = <<"x">>
                  /\ trace[i].value = PyStr(<<"5">>)
                  /\ trace[j].ev = "print" /\ trace[j].value = PyStr(<<"5">>)

(***************************************************************************)
(* C13: Lexer.tokenize terminates on every finite input for every catalog  *)
(* that can be registered: the loop ends with the input exhausted or with  *)
(* a lex error, every produced token has non-empty text, and token         *)
(* offsets are strictly increasing.                                        *)
(***************************************************************************)
C13_TokenizeTerminates ==
    call.op = "tokenize" =>
        LET r == call.result
        IN  /\ r.status \in {"ok", "error"}
            /\ \A i \in 1..Len(r.tokens) : Len(r.tokens[i].value) > 0
            /\ \A i \in 1..Len(r.tokens) : \A j \in (i + 1)..Len(r.tokens) :
                   r.tokens[i].position < r.tokens[j].position

=============================================================================
